---------------------------- MODULE Spec2Model ----------------------------
(***************************************************************************)
(* A model of torchaudio's StreamReader                                    *)
(* (torchaudio/csrc/ffmpeg/stream_reader/stream_reader.cpp): the array of  *)
(* per-source-stream processors, the output index (stream_indices), the   *)
(* packet loop (process_packet / drain), the blocking driver               *)
(* (process_packet_block), seek, the stream-info queries, is_buffer_ready  *)
(* and pop_chunks.                                                         *)
(*                                                                         *)
(* The StreamProcessor (decoder, sinks, chunk buffers) and the demux       *)
(* layer are collaborators of the reader; they are modelled from their     *)
(* documented contract.                                                    *)
(***************************************************************************)
EXTENDS Integers, Sequences, FiniteSets, TLC

(***************************************************************************)
(* Bounds of the model.                                                    *)
(***************************************************************************)
\* number of streams of the opened container (pFormatContext->nb_streams)
NumSrc == 4
\* SpecConfig: most output streams configured at a time
MaxOut == 3
\* SpecConfig: most keys one processor hands out during its life
MaxKey == 3
\* SpecStream: most output streams configured at a time
StreamOut == 2
\* SpecStream: most keys one processor hands out during its life
StreamKey == 2
\* Spec: most output streams configured at a time
AllOut == 1
\* Spec: most keys one processor hands out during its life
AllKey == 1
\* SpecIndex: most output streams configured at a time
IndexOut == 5
\* SpecIndex: most keys one processor hands out during its life
IndexKey == 3
\* SpecDecoder: most output streams configured at a time
DecoderOut == 2
\* SpecDecoder: most keys one processor hands out during its life
DecoderKey == 2
\* SpecSeek: most output streams configured at a time
SeekOut == 2
\* SpecSeek: most keys one processor hands out during its life
SeekKey == 1
\* number of packets of the (finite) source
SrcLen == 2
\* how often the source answers "no data yet"
MaxEagain == 1
\* SpecBlock: process_packet calls of one process_packet_block call during
\* which the clock may stand still
MaxCalls == 3
\* how many seeks of a run succeed
MaxSeeks == 1
\* largest frames_per_chunk of an output stream
MaxFramesPerChunk == 2
\* largest num_chunks of an output stream
MaxNumChunks == 1
\* largest non-negative timeout of the blocking driver, in clock ticks
MaxTimeout == 1
\* largest backoff of the blocking driver, in clock ticks
MaxBackoff == 1
\* frames a decoder holds back until it is drained
DecoderDelay == 1
\* distance between two key frames of the source, in packets
KeyInterval == 2

(***************************************************************************)
(* Status codes.                                                           *)
(***************************************************************************)
\* AVERROR_EOF
AVERROR_EOF == -541478725
\* AVERROR(EAGAIN)
AVERROR_EAGAIN == -11
\* AVERROR(EIO): a fatal status of the read
AVERROR_EIO == -5
\* AVERROR_INVALIDDATA: a fatal status of a decoder
AVERROR_INVALIDDATA == -1094995529
\* AVERROR(ENOMEM): a second fatal status of a decoder
AVERROR_ENOMEM == -12

Src == 0 .. (NumSrc - 1)

\* The container of the model: stream i is audio, video, a subtitle stream,
\* and an audio stream whose sample format the probe could not detect, in
\* turn.
codec_type(i) ==
  CASE i % 4 = 0 -> "audio"
    [] i % 4 = 1 -> "video"
    [] i % 4 = 2 -> "subtitle"
    [] OTHER     -> "audio"

\* codecpar->format: -1 when the probe did not detect it
format(i) == IF i % 4 = 3 THEN -1 ELSE 1

\* decoders the decode layer knows; any other name is unknown to it
Decoders == {"default", "alt"}

\* the null packet drain() hands to a processor
NullPacket == [stream_index |-> -1, pts |-> -1]

VARIABLES
  discard,         \* discard[i]: streams[i]->discard, "all" or "default"
  processors,      \* processors[i]: the processor of source stream i
  stream_indices,  \* the output index: sequence of <<source index, key>>
  pos,             \* demuxer: index of the next packet of the source
  eagain_left,     \* demuxer: transient answers the source may still give,
                   \* NoLimit: any number
  seeks_left,      \* seeks of the run that may still succeed
  seek_ts,         \* timestamp of the last seek that succeeded, -1: none
  bpc,             \* process_packet_block: "idle", "call" or "sleep"
  timeout,         \* process_packet_block: its timeout argument
  backoff,         \* process_packet_block: its backoff argument
  left,            \* process_packet_block: dead_line - now, floored at -1
  calls,           \* process_packet_block: its process_packet calls, [rd, ret] each
  sleeps,          \* process_packet_block: number of sleeps so far
  pp_success,      \* some process_packet call returned >= 0
  op,              \* the last operation <<name, argument>>; an add also
                   \* records its decoder argument
  err,             \* "none", or the error the last operation raised
  ret,             \* status returned by the last process_packet(_block)
  rd,              \* status of the last av_read_frame (1: none was made)
  pkt,             \* the packet that read delivered, or NullPacket
  received,        \* source indices whose processor got the packet (last op)
  nulled,          \* source indices whose processor got a null packet (last op)
  flushed,         \* the flush() calls of the last op: source indices, in order
  presults,        \* results the processors gave in the last op
  ready,           \* result of the last is_buffer_ready()
  info,            \* result of the last get_src/out_stream_info()
  popped           \* result of the last pop_chunks()

vars == << discard, processors, stream_indices, pos, eagain_left, seeks_left,
           seek_ts, info,
           bpc, timeout, backoff, left, calls, sleeps, pp_success,
           op, err, ret, rd, pkt, received, nulled, flushed, presults, ready,
           popped >>

cfgVars == << discard, processors, stream_indices >>
srcVars == << pos, eagain_left >>
seekVars == << seeks_left, seek_ts >>
blockVars == << bpc, timeout, backoff, left, calls, sleeps >>

(***************************************************************************)
(* StreamProcessor: one decoder and a map from key to sink.                *)
(***************************************************************************)
NoSinks == [k \in {} |-> 0]

\* an empty slot of the processor array (a null unique_ptr)
NoProcessor ==
  [present |-> FALSE, decoder |-> "", current_key |-> 0,
   sinks |-> NoSinks, pending |-> << >>]

\* StreamProcessor's constructor: a decoder and no sink
NewProcessor(decoder) ==
  [present |-> TRUE, decoder |-> decoder, current_key |-> 0,
   sinks |-> NoSinks, pending |-> << >>]

\* a sink: its chunking parameters and its chunk buffer
NewSink(frames_per_chunk, num_chunks) ==
  [frames_per_chunk |-> frames_per_chunk, num_chunks |-> num_chunks,
   frames |-> << >>, drained |-> FALSE]

\* StreamProcessor::add_stream: a fresh key for a new sink
ProcAddStream(p, frames_per_chunk, num_chunks) ==
  LET key == p.current_key
  IN [p EXCEPT !.current_key = key + 1,
               !.sinks = [k \in (DOMAIN p.sinks) \cup {key} |->
                            IF k = key
                            THEN NewSink(frames_per_chunk, num_chunks)
                            ELSE p.sinks[k]]]

\* StreamProcessor::remove_stream
ProcRemoveStream(p, key) ==
  [p EXCEPT !.sinks = [k \in (DOMAIN p.sinks) \ {key} |-> p.sinks[k]]]


Max(a, b) == IF a >= b THEN a ELSE b
Min(a, b) == IF a <= b THEN a ELSE b

\* Buffer::push_frame: append, dropping the oldest frame beyond
\* frames_per_chunk * num_chunks
PushFrame(sink, f) ==
  LET all == Append(sink.frames, f)
  IN [sink EXCEPT !.frames =
        IF Len(all) > sink.frames_per_chunk * sink.num_chunks
        THEN Tail(all) ELSE all]

RECURSIVE PushFrames(_, _)
PushFrames(sink, fs) ==
  IF fs = << >> THEN sink
  ELSE PushFrames(PushFrame(sink, Head(fs)), Tail(fs))

\* StreamProcessor::process_packet(packet), the decode succeeding: the
\* decoder holds back DecoderDelay frames; what it emits goes to every sink
ProcDecode(p, pts) ==
  LET q    == Append(p.pending, pts)
      emit == IF Len(q) > DecoderDelay THEN << Head(q) >> ELSE << >>
      keep == IF Len(q) > DecoderDelay THEN Tail(q) ELSE q
  IN [p EXCEPT !.pending = keep,
               !.sinks = [k \in DOMAIN p.sinks |->
                            PushFrames(p.sinks[k], emit)]]

\* StreamProcessor::process_packet(nullptr), succeeding: the decoder emits
\* what it held back and every sink learns that the stream has ended
ProcDrain(p) ==
  [p EXCEPT !.pending = << >>,
            !.sinks = [k \in DOMAIN p.sinks |->
                         [PushFrames(p.sinks[k], p.pending)
                            EXCEPT !.drained = TRUE]]]

\* StreamProcessor::process_packet: a negative result leaves the processor
\* as it was
ProcProcessPacket(p, packet, result) ==
  IF result < 0 THEN p
  ELSE IF packet = NullPacket THEN ProcDrain(p)
  ELSE ProcDecode(p, packet.pts)

\* StreamProcessor::flush: decoder and buffers are emptied, sinks stay
ProcFlush(p) ==
  [p EXCEPT !.pending = << >>,
            !.sinks = [k \in DOMAIN p.sinks |->
                         [p.sinks[k] EXCEPT !.frames = << >>,
                                            !.drained = FALSE]]]

\* Buffer::is_ready
SinkReady(sink) ==
  Len(sink.frames) >= sink.frames_per_chunk \/ sink.drained

\* StreamProcessor::is_buffer_ready: every sink's buffer is ready
ProcIsBufferReady(p) ==
  \A k \in DOMAIN p.sinks : SinkReady(p.sinks[k])

\* the "nothing available" marker of pop_chunk (an empty optional)
NoChunk == << >>

\* the chunk StreamProcessor::pop_chunk(key) returns
ProcPopChunk(p, key) ==
  LET fr == p.sinks[key].frames
  IN SubSeq(fr, 1, Min(Len(fr), p.sinks[key].frames_per_chunk))

\* the processor after pop_chunk(key)
ProcAfterPop(p, key) ==
  LET fr == p.sinks[key].frames
      n  == Min(Len(fr), p.sinks[key].frames_per_chunk)
  IN [p EXCEPT !.sinks[key].frames = SubSeq(fr, n + 1, Len(fr))]


(***************************************************************************)
(* StreamReader.                                                           *)
(***************************************************************************)
\* the fields an operation that handles no packet leaves at their defaults
NoPacketSeen ==
  /\ rd' = 1
  /\ pkt' = NullPacket
  /\ received' = {}
  /\ nulled' = {}
  /\ presults' = NoSinks

\* the result of an operation that is not a stream-info query
NoInfo == [media_type |-> "", fmt_name |-> FALSE, source_index |-> -1, key |-> -1]

NoQuerySeen ==
  /\ ready' = TRUE
  /\ popped' = << >>
  /\ info' = NoInfo

\* no process_packet_block call is in progress after the operation
BlockIdle ==
  /\ bpc' = "idle"
  /\ timeout' = 0
  /\ backoff' = 0
  /\ left' = 0
  /\ calls' = << >>
  /\ sleeps' = 0

\* a source that may answer "no data yet" any number of times
NoLimit == -1

\* a faulty variant: no stream is flagged
OpenDiscardNone(i) == "default"

\* the loop of the constructor: the discard flag of stream i after open.  A
\* stream that is neither audio nor video is flagged AVDISCARD_ALL, the
\* others keep the AVDISCARD_DEFAULT the demux layer gave them
OpenDiscard(i) ==
  IF codec_type(i) \in {"audio", "video"} THEN "default" ELSE "all"

\* StreamReader::StreamReader: one empty processor slot per stream; streams
\* that are neither audio nor video are discarded.  The source may answer
\* "no data yet" `transients` times
Open(transients) ==
  /\ discard = [i \in Src |-> OpenDiscard(i)]
  /\ processors = [i \in Src |-> NoProcessor]
  /\ stream_indices = << >>
  /\ pos = 0
  /\ eagain_left = transients
  /\ seeks_left = MaxSeeks
  /\ seek_ts = -1
  /\ bpc = "idle"
  /\ timeout = 0
  /\ backoff = 0
  /\ left = 0
  /\ calls = << >>
  /\ sleeps = 0
  /\ pp_success = FALSE
  /\ op = << "open", 0 >>
  /\ err = "none"
  /\ ret = 0
  /\ rd = 1
  /\ pkt = NullPacket
  /\ received = {}
  /\ nulled = {}
  /\ flushed = << >>
  /\ presults = NoSinks
  /\ ready = TRUE
  /\ popped = << >>
  /\ info = NoInfo

Init == Open(MaxEagain)

\* a faulty variant: the lower end of the range is not checked
ValidSrcStreamIndexNoLower(i) == i < NumSrc

\* StreamReader::validate_src_stream_index
ValidSrcStreamIndex(i) == i >= 0 /\ i < NumSrc

\* StreamReader::validate_output_stream_index
ValidOutputStreamIndex(i) == i >= 0 /\ i < Len(stream_indices)

\* a faulty variant: the media type is not compared
ValidSrcStreamTypeAny(i, media_type) == TRUE

\* StreamReader::validate_src_stream_type
ValidSrcStreamType(i, media_type) == codec_type(i) = media_type

\* a faulty variant: a processor that exists is given the decoder of the
\* call
ProcessorForRedecode(i, decoder) ==
  IF processors[i].present
  THEN [processors[i] EXCEPT !.decoder = decoder]
  ELSE NewProcessor(decoder)

\* the processor add_stream registers the output stream with: the one in
\* slot i, or, the slot being empty, a new one made with the decoder of the
\* call
ProcessorFor(i, decoder) ==
  IF processors[i].present THEN processors[i] ELSE NewProcessor(decoder)

\* StreamReader::add_stream.  The StreamProcessor constructor fails for a
\* decoder the decode layer does not know; filter_ok: the processor's
\* add_stream can build the filter graph of the filter description
AddStream(i, media_type, frames_per_chunk, num_chunks, decoder, filter_ok) ==
  IF ~ValidSrcStreamIndex(i)
  THEN /\ err' = "Source stream index out of range"
       /\ UNCHANGED cfgVars
  ELSE IF ~ValidSrcStreamType(i, media_type)
  THEN /\ err' = "Stream is not of the media type"
       /\ UNCHANGED cfgVars
  ELSE IF format(i) = -1
  THEN /\ err' = "Failed to detect the source stream format."
       /\ UNCHANGED cfgVars
  ELSE IF ~processors[i].present /\ decoder \notin Decoders
  THEN /\ err' = "Unsupported decoder"
       /\ UNCHANGED cfgVars
  ELSE LET p == ProcessorFor(i, decoder)
       IN /\ discard' = [discard EXCEPT ![i] = "default"]
          /\ IF filter_ok
             THEN /\ processors' =
                       [processors EXCEPT ![i] =
                          ProcAddStream(p, frames_per_chunk, num_chunks)]
                  /\ stream_indices' =
                       Append(stream_indices, << i, p.current_key >>)
                  /\ err' = "none"
             ELSE /\ processors' = [processors EXCEPT ![i] = p]
                  /\ stream_indices' = stream_indices
                  /\ err' = "Failed to build the filter graph"

\* StreamReader::add_audio_stream
AddAudioStream(i, frames_per_chunk, num_chunks, decoder, filter_ok) ==
  /\ bpc = "idle"
  /\ AddStream(i, "audio", frames_per_chunk, num_chunks, decoder,
               filter_ok)
  /\ op' = << "add_audio_stream", i, decoder >>
  /\ ret' = 0
  /\ flushed' = << >>
  /\ NoPacketSeen /\ NoQuerySeen /\ BlockIdle
  /\ UNCHANGED << srcVars, seekVars, pp_success >>

\* StreamReader::add_video_stream.  hw_accel: "none", or the device asked
\* for; use_cuda: the build defines USE_CUDA
AddVideoStream(i, frames_per_chunk, num_chunks, decoder, filter_ok, hw_accel, use_cuda) ==
  /\ bpc = "idle"
  /\ IF hw_accel # "none" /\ ~use_cuda
     THEN /\ err' = "torchaudio is not compiled with CUDA support."
          /\ UNCHANGED cfgVars
     ELSE IF hw_accel # "none" /\ hw_accel # "cuda"
     THEN /\ err' = "Only CUDA is supported for hardware acceleration."
          /\ UNCHANGED cfgVars
     ELSE AddStream(i, "video", frames_per_chunk, num_chunks, decoder,
                    filter_ok)
  /\ op' = << "add_video_stream", i, decoder >>
  /\ ret' = 0
  /\ flushed' = << >>
  /\ NoPacketSeen /\ NoQuerySeen /\ BlockIdle
  /\ UNCHANGED << srcVars, seekVars, pp_success >>

\* a faulty variant: the scan looks at the first entry only
StillUsedFirstOnly(indices, iP) ==
  indices # << >> /\ indices[1][1] = iP

\* the scan of remove_stream: some entry of the output index refers to iP
StillUsed(indices, iP) ==
  \E j \in 1 .. Len(indices) : indices[j][1] = iP

\* a faulty erase: the last entry is moved into the hole
EraseSwapLast(indices, i) ==
  IF i + 1 = Len(indices) THEN SubSeq(indices, 1, i)
  ELSE SubSeq(indices, 1, i) \o << indices[Len(indices)] >>
       \o SubSeq(indices, i + 2, Len(indices) - 1)

\* stream_indices.erase(it): the output index without its entry at
\* (0-based) position i
Erase(indices, i) ==
  SubSeq(indices, 1, i) \o SubSeq(indices, i + 2, Len(indices))

\* StreamReader::remove_stream
RemoveStream(i) ==
  /\ bpc = "idle"
  /\ IF ~ValidOutputStreamIndex(i)
     THEN /\ err' = "Output stream index out of range"
          /\ UNCHANGED cfgVars
     ELSE LET iP  == stream_indices[i + 1][1]
              key == stream_indices[i + 1][2]
              rest == Erase(stream_indices, i)
          IN /\ stream_indices' = rest
             /\ processors' =
                  [processors EXCEPT ![iP] =
                     IF StillUsed(rest, iP)
                     THEN ProcRemoveStream(processors[iP], key)
                     ELSE NoProcessor]
             /\ discard' = discard
             /\ err' = "none"
  /\ op' = << "remove_stream", i >>
  /\ ret' = 0
  /\ flushed' = << >>
  /\ NoPacketSeen /\ NoQuerySeen /\ BlockIdle
  /\ UNCHANGED << srcVars, seekVars, pp_success >>


\* StreamReader::get_src_stream_info: the media type of the stream, and
\* whether it has a name for its sample or pixel format
GetSrcStreamInfo(i) ==
  /\ bpc = "idle"
  /\ IF ~ValidSrcStreamIndex(i)
     THEN /\ err' = "Source stream index out of range"
          /\ info' = NoInfo
     ELSE /\ err' = "none"
          /\ info' = [NoInfo EXCEPT
                        !.media_type = codec_type(i),
                        !.fmt_name = /\ codec_type(i) \in { "audio", "video" }
                                     /\ format(i) # -1]
  /\ op' = << "get_src_stream_info", i >>
  /\ ret' = 0
  /\ flushed' = << >>
  /\ ready' = TRUE
  /\ popped' = << >>
  /\ NoPacketSeen /\ BlockIdle
  /\ UNCHANGED << cfgVars, srcVars, seekVars, pp_success >>

\* StreamReader::get_out_stream_info: the source index of the output stream
\* and the filter description its processor keeps under the key.  Calling
\* through an empty slot is undefined: the call crashes, or goes unnoticed
GetOutStreamInfo(i) ==
  /\ bpc = "idle"
  /\ IF ~ValidOutputStreamIndex(i)
     THEN /\ err' = "Output stream index out of range"
          /\ info' = NoInfo
     ELSE LET i_src == stream_indices[i + 1][1]
              key   == stream_indices[i + 1][2]
              found == [NoInfo EXCEPT !.source_index = i_src, !.key = key]
          IN IF ~processors[i_src].present
             THEN /\ err' \in { "crash", "none" }
                  /\ info' \in { NoInfo, found }
             ELSE IF key \notin DOMAIN processors[i_src].sinks
             THEN /\ err' = "unknown key"
                  /\ info' = NoInfo
             ELSE /\ err' = "none"
                  /\ info' = found
  /\ op' = << "get_out_stream_info", i >>
  /\ ret' = 0
  /\ flushed' = << >>
  /\ ready' = TRUE
  /\ popped' = << >>
  /\ NoPacketSeen /\ BlockIdle
  /\ UNCHANGED << cfgVars, srcVars, seekVars, pp_success >>


(***************************************************************************)
(* The demux layer, as the reader sees it.                                 *)
(***************************************************************************)
\* what av_read_frame may answer: << status, packet >>.  A source at its end
\* answers AVERROR_EOF; otherwise the next packet belongs to a stream that
\* is not discarded; a transient or a fatal status may come in between
ReadOutcomes ==
  (IF pos >= SrcLen
   THEN { << AVERROR_EOF, NullPacket >> }
   ELSE { << 0, [stream_index |-> s, pts |-> pos] >> :
            s \in { i \in Src : discard[i] # "all" } })
  \cup (IF eagain_left # 0
        THEN { << AVERROR_EAGAIN, NullPacket >> } ELSE {})
  \cup { << AVERROR_EIO, NullPacket >> }

\* the demuxer after the read
ReadAdvance(status) ==
  /\ pos' = IF status = 0 THEN pos + 1 ELSE pos
  /\ eagain_left' =
       IF status = AVERROR_EAGAIN /\ eagain_left > 0
       THEN eagain_left - 1 ELSE eagain_left

\* avformat_seek_file(..., INT64_MIN, ts, INT64_MAX, 0): the key frame at or
\* before the timestamp
SeekTarget(ts) ==
  LET t == Min(ts, SrcLen - 1)
  IN t - (t % KeyInterval)

\* the statuses a processor may give: success or a fatal decoder error
ProcResults == { 0, AVERROR_INVALIDDATA, AVERROR_ENOMEM }

Present == { i \in Src : processors[i].present }

(***************************************************************************)
(* Stream methods.                                                         *)
(***************************************************************************)
\* a faulty variant: the first negative result is kept
RECURSIVE DrainRetFirst(_, _, _)
DrainRetFirst(i, ret0, results) ==
  IF i >= NumSrc THEN ret0
  ELSE IF processors[i].present /\ results[i] < 0 /\ ret0 = 0
  THEN DrainRetFirst(i + 1, results[i], results)
  ELSE DrainRetFirst(i + 1, ret0, results)

\* the loop of StreamReader::drain over processors[i .. NumSrc - 1], given
\* the results of the processors: the last negative one, else ret
RECURSIVE DrainRet(_, _, _)
DrainRet(i, ret0, results) ==
  IF i >= NumSrc THEN ret0
  ELSE IF processors[i].present /\ results[i] < 0
  THEN DrainRet(i + 1, results[i], results)
  ELSE DrainRet(i + 1, ret0, results)

\* a faulty variant: the loop ends after the first processor
DrainTargetsFirstOnly ==
  { i \in Src : processors[i].present
                 /\ \A j \in Src : processors[j].present => i <= j }

\* StreamReader::drain: the processors that get the null packet
DrainTargets == { i \in Src : processors[i].present }

\* a faulty variant: the drain's result is handed on as it is
AfterDrainAsIs(r) == r

\* the value process_packet returns once the read reported end-of-stream
AfterDrain(r) == IF r < 0 THEN r ELSE 1

\* a faulty variant: the processor's error is swallowed
AfterPacketSwallow(r) == 0

\* the value process_packet returns for what the processor answered
AfterPacket(r) == IF r < 0 THEN r ELSE 0

\* a faulty variant: the transient status is reported as success
ReadErrorHidesEagain(status) == IF status = AVERROR_EAGAIN THEN 0 ELSE status

\* the value process_packet returns for a negative status of the read that
\* is not end-of-stream
ReadError(status) == status

\* StreamReader::process_packet, the read answering `status` with `packet`
\* and the processors answering `results`
ProcessPacketBody(status, packet, results) ==
  /\ rd' = status
  /\ pkt' = packet
  /\ ReadAdvance(status)
  /\ IF status = AVERROR_EOF
     THEN /\ nulled' = DrainTargets
          /\ received' = {}
          /\ presults' = [i \in DrainTargets |-> results[i]]
          /\ processors' =
               [i \in Src |->
                  IF i \in DrainTargets
                  THEN ProcProcessPacket(processors[i], NullPacket, results[i])
                  ELSE processors[i]]
          /\ ret' = AfterDrain(DrainRet(0, 0, results))
     ELSE IF status < 0
     THEN /\ nulled' = {}
          /\ received' = {}
          /\ presults' = NoSinks
          /\ processors' = processors
          /\ ret' = ReadError(status)
     ELSE IF ~processors[packet.stream_index].present
     THEN /\ nulled' = {}
          /\ received' = {}
          /\ presults' = NoSinks
          /\ processors' = processors
          /\ ret' = 0
     ELSE LET s == packet.stream_index
          IN /\ nulled' = {}
             /\ received' = { s }
             /\ presults' = [i \in { s } |-> results[i]]
             /\ processors' =
                  [processors EXCEPT ![s] =
                     ProcProcessPacket(processors[s], packet, results[s])]
             /\ ret' = AfterPacket(results[s])
  /\ pp_success' = (pp_success \/ ret' >= 0)
  /\ UNCHANGED << discard, stream_indices >>

\* StreamReader::process_packet
ProcessPacket ==
  /\ bpc = "idle"
  /\ \E o \in ReadOutcomes, results \in [Present -> ProcResults] :
       ProcessPacketBody(o[1], o[2], results)
  /\ op' = << "process_packet", 0 >>
  /\ err' = "none"
  /\ flushed' = << >>
  /\ NoQuerySeen /\ BlockIdle
  /\ UNCHANGED seekVars


\* time_point<steady_clock>::max(), as the time left until it: more ticks
\* than any run of the model lasts
Forever == 1000000

\* a faulty variant: a negative timeout is not told apart
DeadLineNoForever(t) == t

\* the dead_line of process_packet_block, as the time left until it
DeadLine(t) == IF t < 0 THEN Forever ELSE t

\* dead_line - now after d more ticks, floored at -1
Elapse(l, d) == IF l = Forever THEN Forever ELSE Max(l - d, -1)

\* dead_line < std::chrono::steady_clock::now()
DeadLinePassed(l) == l < 0

\* a faulty variant: every negative result is polled again
BlockDecideRetryNegative(r, l) ==
  IF r >= 0 THEN "return"
  ELSE IF DeadLinePassed(l) THEN "return"
  ELSE "sleep"

\* a faulty variant: 0, "keep calling", is polled again as well
BlockDecideKeepCalling(r, l) ==
  IF r # AVERROR_EAGAIN /\ r # 0 THEN "return"
  ELSE IF DeadLinePassed(l) THEN "return"
  ELSE "sleep"

\* a faulty variant: the deadline is not looked at
BlockDecideNoDeadline(r, l) ==
  IF r # AVERROR_EAGAIN THEN "return" ELSE "sleep"

\* the loop body of process_packet_block after process_packet returned r:
\* "return" or "sleep"
BlockDecide(r, l) ==
  IF r # AVERROR_EAGAIN THEN "return"
  ELSE IF DeadLinePassed(l) THEN "return"
  ELSE "sleep"

\* StreamReader::process_packet_block: entry, dead_line and sleep are computed
BlockStart(t, b) ==
  /\ bpc = "idle"
  /\ bpc' = "call"
  /\ timeout' = t
  /\ backoff' = b
  /\ left' = DeadLine(t)
  /\ calls' = << >>
  /\ sleeps' = 0
  /\ op' = << "process_packet_block", 0 >>
  /\ err' = "none"
  /\ ret' = 0
  /\ flushed' = << >>
  /\ NoPacketSeen /\ NoQuerySeen
  /\ UNCHANGED << cfgVars, srcVars, seekVars, pp_success >>

\* StreamReader::process_packet_block: one round of the loop up to the
\* return or the sleep; process_packet takes d ticks
BlockPoll ==
  /\ bpc = "call"
  /\ \E o \in ReadOutcomes, results \in [Present -> ProcResults], d \in 0 .. 1 :
       /\ ProcessPacketBody(o[1], o[2], results)
       /\ left' = Elapse(left, d)
  /\ calls' = Append(calls, [rd |-> rd', ret |-> ret'])
  /\ bpc' = IF BlockDecide(ret', left') = "return"
            THEN "idle" ELSE "sleep"
  /\ flushed' = << >>
  /\ NoQuerySeen
  /\ UNCHANGED << seekVars, timeout, backoff, sleeps, op, err >>

\* StreamReader::process_packet_block: std::this_thread::sleep_for(sleep),
\* which lasts backoff ticks or one more
BlockSleep ==
  /\ bpc = "sleep"
  /\ \E d \in 0 .. 1 : left' = Elapse(left, backoff + d)
  /\ sleeps' = sleeps + 1
  /\ bpc' = "call"
  /\ UNCHANGED << cfgVars, srcVars, seekVars, timeout, backoff,
                  calls, pp_success, op, err, ret, rd, pkt, received, nulled,
                  flushed, presults, ready, popped, info >>

(***************************************************************************)
(* Seek and the queries.                                                   *)
(***************************************************************************)
\* a faulty variant: a negative timestamp is sought like any other
SeekRejectsNothing(timestamp) == FALSE

\* the check of StreamReader::seek on its argument
SeekRejects(timestamp) == timestamp < 0

\* a faulty variant: the first processor is flushed a second time at the end
RECURSIVE FlushOrderFirstTwice(_)
FlushOrderFirstTwice(i) ==
  IF i >= NumSrc
  THEN IF Present = {} THEN << >>
       ELSE << CHOOSE j \in Present : \A k \in Present : j <= k >>
  ELSE IF processors[i].present
  THEN << i >> \o FlushOrderFirstTwice(i + 1)
  ELSE FlushOrderFirstTwice(i + 1)

\* the loop of StreamReader::seek over processors[i .. NumSrc - 1]: the
\* flush() calls it makes, in order
RECURSIVE FlushOrder(_)
FlushOrder(i) ==
  IF i >= NumSrc THEN << >>
  ELSE IF processors[i].present
  THEN << i >> \o FlushOrder(i + 1)
  ELSE FlushOrder(i + 1)

\* the processors after the flush() calls of `order`
RECURSIVE FlushAll(_, _)
FlushAll(procs, order) ==
  IF order = << >> THEN procs
  ELSE FlushAll([procs EXCEPT ![Head(order)] = ProcFlush(procs[Head(order)])],
                Tail(order))

\* StreamReader::seek.  seek_ok: avformat_seek_file succeeds
Seek(timestamp, seek_ok) ==
  /\ bpc = "idle"
  /\ IF SeekRejects(timestamp)
     THEN /\ err' = "timestamp must be non-negative."
          /\ flushed' = << >>
          /\ UNCHANGED << processors, pos, seekVars >>
     ELSE IF ~seek_ok
     THEN /\ err' = "Failed to seek."
          /\ flushed' = << >>
          /\ UNCHANGED << processors, pos, seekVars >>
     ELSE /\ seeks_left > 0
          /\ seeks_left' = seeks_left - 1
          /\ err' = "none"
          /\ pos' = SeekTarget(timestamp)
          /\ seek_ts' = timestamp
          /\ flushed' = FlushOrder(0)
          /\ processors' = FlushAll(processors, FlushOrder(0))
  /\ op' = << "seek", timestamp >>
  /\ ret' = 0
  /\ NoPacketSeen /\ NoQuerySeen /\ BlockIdle
  /\ UNCHANGED << discard, stream_indices, eagain_left, pp_success >>

\* a faulty variant: an empty slot counts as not ready
RECURSIVE IsBufferReadyNoNullCheck(_)
IsBufferReadyNoNullCheck(i) ==
  IF i >= NumSrc THEN TRUE
  ELSE IF ~processors[i].present \/ ~ProcIsBufferReady(processors[i])
  THEN FALSE
  ELSE IsBufferReadyNoNullCheck(i + 1)

\* the loop of StreamReader::is_buffer_ready over processors[i .. NumSrc - 1]
RECURSIVE IsBufferReadyFrom(_)
IsBufferReadyFrom(i) ==
  IF i >= NumSrc THEN TRUE
  ELSE IF processors[i].present /\ ~ProcIsBufferReady(processors[i])
  THEN FALSE
  ELSE IsBufferReadyFrom(i + 1)

\* StreamReader::is_buffer_ready
IsBufferReady ==
  /\ bpc = "idle"
  /\ ready' = IsBufferReadyFrom(0)
  /\ popped' = << >>
  /\ info' = NoInfo
  /\ op' = << "is_buffer_ready", 0 >>
  /\ err' = "none"
  /\ ret' = 0
  /\ flushed' = << >>
  /\ NoPacketSeen /\ BlockIdle
  /\ UNCHANGED << cfgVars, srcVars, seekVars, pp_success >>

\* a faulty variant: the chunks are collected in reverse order
RECURSIVE PopLoopReversed(_, _, _)
PopLoopReversed(j, procs, out) ==
  IF j > Len(stream_indices) THEN << procs, out >>
  ELSE LET src == stream_indices[j][1]
           key == stream_indices[j][2]
       IN PopLoopReversed(j + 1,
                  [procs EXCEPT ![src] = ProcAfterPop(procs[src], key)],
                  << ProcPopChunk(procs[src], key) >> \o out)

\* the loop of StreamReader::pop_chunks from entry j of the output index on:
\* << the processors afterwards, the chunks >>
RECURSIVE PopLoop(_, _, _)
PopLoop(j, procs, out) ==
  IF j > Len(stream_indices) THEN << procs, out >>
  ELSE LET src == stream_indices[j][1]
           key == stream_indices[j][2]
       IN PopLoop(j + 1,
                  [procs EXCEPT ![src] = ProcAfterPop(procs[src], key)],
                  Append(out, ProcPopChunk(procs[src], key)))

\* StreamReader::pop_chunks
PopChunks ==
  /\ bpc = "idle"
  /\ LET r == PopLoop(1, processors, << >>)
     IN /\ processors' = r[1]
        /\ popped' = r[2]
  /\ ready' = TRUE
  /\ info' = NoInfo
  /\ op' = << "pop_chunks", 0 >>
  /\ err' = "none"
  /\ ret' = 0
  /\ flushed' = << >>
  /\ NoPacketSeen /\ BlockIdle
  /\ UNCHANGED << discard, stream_indices, srcVars, seekVars,
                  pp_success >>

(***************************************************************************)
(* The reader under every sequence of calls of its caller.                 *)
(***************************************************************************)
\* what bounds the configuration: at most `outs` output streams, and keys
\* below `keys`
CanAdd(i, outs, keys) ==
  /\ Len(stream_indices) < outs
  /\ i \in Src => processors[i].current_key < keys

SrcArgs == -1 .. NumSrc
Chunking == 1 .. MaxFramesPerChunk
NumChunks == 1 .. MaxNumChunks
Timeouts == -1 .. MaxTimeout
Backoffs == 0 .. MaxBackoff
DecoderArgs == Decoders \cup { "unknown" }
\* decoder arguments of SpecConfig: one the decode layer knows, one it does
\* not
ConfigDecoders == { "default", "unknown" }
\* timestamps of seek: every one up to the end of the source, and those
\* that only rewind or are rejected
SeekArgs == -1 .. SrcLen
Rewinds == -1 .. 0
\* << hw_accel, USE_CUDA >>
HwAccels == { << "none", FALSE >>, << "cuda", TRUE >>, << "cuda", FALSE >>, << "cpu", TRUE >> }

\* the calls that configure the reader, with at most `outs` output streams,
\* keys below `keys`, decoder arguments from `decs`
ConfigCalls(outs, keys, decs) ==
  \/ \E i \in SrcArgs, f \in Chunking, n \in NumChunks, d \in decs, g \in BOOLEAN : CanAdd(i, outs, keys) /\ AddAudioStream(i, f, n, d, g)
  \/ \E i \in SrcArgs, f \in Chunking, n \in NumChunks, d \in decs, g \in BOOLEAN, h \in HwAccels : CanAdd(i, outs, keys) /\ AddVideoStream(i, f, n, d, g, h[1], h[2])
  \/ \E i \in -1 .. outs : RemoveStream(i)

\* the calls that configure the reader for the packet loop: adds on the
\* streams of the container with the default decoder, on the CPU or on a
\* CUDA device of a build that has one, and removes
LoopConfigCalls(outs, keys) ==
  \/ \E i \in Src, f \in Chunking, n \in NumChunks, g \in BOOLEAN : CanAdd(i, outs, keys) /\ AddAudioStream(i, f, n, "default", g)
  \/ \E i \in Src, f \in Chunking, n \in NumChunks, g \in BOOLEAN, h \in { << "none", FALSE >>, << "cuda", TRUE >> } : CanAdd(i, outs, keys) /\ AddVideoStream(i, f, n, "default", g, h[1], h[2])
  \/ \E i \in -1 .. outs : RemoveStream(i)

\* the calls that drive and read the stream
StreamCalls ==
  \/ \E t \in Rewinds, k \in BOOLEAN : Seek(t, k)
  \/ ProcessPacket
  \/ IsBufferReady
  \/ PopChunks

\* the blocking driver
BlockCalls ==
  \/ \E t \in Timeouts, b \in Backoffs : BlockStart(t, b)
  \/ BlockPoll
  \/ BlockSleep

\* Every call, on a reader of at most AllOut output streams.
Next == LoopConfigCalls(AllOut, AllKey) \/ StreamCalls \/ BlockCalls

\* The configuration in full: up to MaxOut output streams, a decoder the
\* decode layer knows or one it does not, and the queries.
NextConfig == ConfigCalls(MaxOut, MaxKey, ConfigDecoders) \/ IsBufferReady \/ PopChunks

\* The packet loop on up to StreamOut output streams.
NextStream == LoopConfigCalls(StreamOut, StreamKey) \/ StreamCalls

\* Every decoder argument, on up to DecoderOut output streams.
NextDecoder == ConfigCalls(DecoderOut, DecoderKey, DecoderArgs)

\* Seeking to every timestamp, on up to SeekOut output streams.
NextSeek ==
  \/ LoopConfigCalls(SeekOut, SeekKey)
  \/ \E t \in SeekArgs, k \in BOOLEAN : Seek(t, k)
  \/ ProcessPacket
  \/ PopChunks

\* Every index argument, on up to IndexOut output streams of one frame per
\* chunk: more output streams than the container has streams.
NextIndex ==
  \/ \E i \in SrcArgs, g \in BOOLEAN : CanAdd(i, IndexOut, IndexKey) /\ AddAudioStream(i, 1, 1, "default", g)
  \/ \E i \in SrcArgs, g \in BOOLEAN, h \in HwAccels : CanAdd(i, IndexOut, IndexKey) /\ AddVideoStream(i, 1, 1, "default", g, h[1], h[2])
  \/ \E i \in -1 .. IndexOut : RemoveStream(i)
  \/ \E i \in SrcArgs : GetSrcStreamInfo(i)
  \/ \E i \in -1 .. IndexOut : GetOutStreamInfo(i)
  \/ PopChunks

\* The blocking driver with a timeout, on a source that may answer "no data
\* yet" again and again.  The steady clock does not stand still for ever:
\* from the MaxCalls-th call on, every call made before the deadline is
\* seen to take time.
NextBlock ==
  \/ LoopConfigCalls(AllOut, AllKey)
  \/ \E t \in 0 .. MaxTimeout, b \in Backoffs : BlockStart(t, b)
  \/ BlockPoll /\ (Len(calls) < MaxCalls \/ DeadLinePassed(left) \/ left' < left)
  \/ BlockSleep

Spec == Init /\ [][Next]_vars

\* A round of the driver's loop ends, and so does its sleep.
SpecBlock ==
  /\ Open(NoLimit) /\ [][NextBlock]_vars
  /\ WF_vars(BlockPoll)
  /\ WF_vars(BlockSleep)

SpecIndex == Init /\ [][NextIndex]_vars

SpecDecoder == Init /\ [][NextDecoder]_vars

SpecSeek == Init /\ [][NextSeek]_vars

SpecConfig == Init /\ [][NextConfig]_vars

SpecStream == Init /\ [][NextStream]_vars

\* The reader under a caller that keeps calling the blocking driver without
\* a timeout: a round of the driver's loop and its sleep end, and the call
\* is made again and again.
SpecLive ==
  /\ Init /\ [][Next]_vars
  /\ WF_vars(BlockPoll)
  /\ WF_vars(BlockSleep)
  /\ SF_vars(\E b \in Backoffs : BlockStart(-1, b))


(***************************************************************************)
(* Properties.                                                             *)
(***************************************************************************)
IsProcessPacket(o) == o[1] \in { "process_packet", "process_packet_block" }

\* C1: a source stream has a processor iff some entry of the output index
\* refers to it, whatever add and remove calls succeeded or failed.
C1_ProcessorIffReferenced ==
  \A i \in Src : processors[i].present <=> StillUsed(stream_indices, i)

\* C2: remove_stream(k) with 0 <= k < N succeeds and leaves N - 1 entries:
\* those before position k where they were, those after it one position
\* down.
C2_RemoveShiftsDown ==
  [][ (op'[1] = "remove_stream" /\ ValidOutputStreamIndex(op'[2]))
      => /\ err' = "none"
         /\ Len(stream_indices') = Len(stream_indices) - 1
         /\ \A j \in 1 .. Len(stream_indices') :
              stream_indices'[j] =
                IF j <= op'[2] THEN stream_indices[j]
                ELSE stream_indices[j + 1] ]_vars

\* A, B, C were added, B was removed at index 1, and C is at index 1
C2_Witness ==
  /\ op = << "remove_stream", 1 >>
  /\ err = "none"
  /\ stream_indices = << << 0, 0 >>, << 0, 2 >> >>

\* C3: at end-of-stream process_packet hands the null packet to every
\* processor and to no empty slot, and returns 1 if none of them failed and
\* a negative value otherwise, never 0 and never the end-of-stream status.
C3_EndOfStreamDrains ==
  (IsProcessPacket(op) /\ rd = AVERROR_EOF)
  => /\ nulled = Present
     /\ received = {}
     /\ DOMAIN presults = Present
     /\ IF \E i \in Present : presults[i] < 0 THEN ret < 0 ELSE ret = 1
     /\ ret # 0
     /\ ret # AVERROR_EOF

\* two processors were drained, an empty slot was not, and 1 was returned
C3_Witness ==
  /\ op[1] = "process_packet"
  /\ rd = AVERROR_EOF
  /\ nulled = { 0, 1 }
  /\ ret = 1

\* C4: a packet read for source index s is dropped with 0 and no change when
\* s has no processor; otherwise the processor at s alone receives it, and
\* the call returns its negative result, or 0; never 1.
C4_PacketRouting ==
  [][ (IsProcessPacket(op') /\ rd' = 0 /\ (bpc = "idle" \/ bpc = "call"))
      => LET s == pkt'.stream_index
         IN /\ nulled' = {}
            /\ ret' # 1
            /\ UNCHANGED << stream_indices, discard >>
            /\ IF ~processors[s].present
               THEN /\ ret' = 0
                    /\ received' = {}
                    /\ processors' = processors
               ELSE /\ received' = { s }
                    /\ \A i \in Src \ { s } : processors'[i] = processors[i]
                    /\ ret' = IF presults'[s] < 0 THEN presults'[s] ELSE 0
    ]_vars

\* of two processors the one of stream 1 got the packet, and its error was
\* returned
C4_Witness ==
  /\ op[1] = "process_packet"
  /\ rd = 0
  /\ Present = { 0, 1 }
  /\ received = { 1 }
  /\ ret = AVERROR_INVALIDDATA

\* C5: a transient or fatal status of the read is returned as it is; no
\* processor gets a packet, nothing is drained, and output index,
\* processors and buffers stay as they were.
C5_ReadErrorPropagates ==
  [][ (IsProcessPacket(op') /\ rd' < 0 /\ rd' # AVERROR_EOF
       /\ (bpc = "idle" \/ bpc = "call"))
      => /\ ret' = rd'
         /\ received' = {}
         /\ nulled' = {}
         /\ UNCHANGED << stream_indices, processors, discard >>
    ]_vars

\* the read was transient while a processor held frames
C5_Witness ==
  /\ op[1] = "process_packet"
  /\ rd = AVERROR_EAGAIN
  /\ ret = AVERROR_EAGAIN
  /\ \E i \in Present : \E k \in DOMAIN processors[i].sinks :
       processors[i].sinks[k].frames # << >>

\* the last call was process_packet_block
InBlock == op[1] = "process_packet_block"

\* C6: the driver calls process_packet again only after a transient result;
\* the first other result is returned at once, and a transient one is
\* returned when the deadline has passed.
C6_RetriesOnlyTransient ==
  InBlock
  => /\ \A j \in 1 .. Len(calls) - 1 : calls[j].ret = AVERROR_EAGAIN
     /\ (bpc # "idle" /\ calls # << >>)
          => calls[Len(calls)].ret = AVERROR_EAGAIN
     /\ bpc = "idle"
          => /\ calls # << >>
             /\ ret = calls[Len(calls)].ret
             /\ ret = AVERROR_EAGAIN => DeadLinePassed(left)

\* a fatal status was returned by the second call, after a transient one
C6_Witness ==
  /\ InBlock /\ bpc = "idle"
  /\ Len(calls) = 2
  /\ calls[1].ret = AVERROR_EAGAIN
  /\ ret = AVERROR_EIO

\* C7: without a timeout the driver never returns the transient status, and
\* called again while it answers 0 on a finite source it eventually
\* returns 1, unless a fatal status ends the run.
C7_UnboundedFinishes ==
  /\ [](InBlock /\ timeout < 0 /\ bpc = "idle" => ret # AVERROR_EAGAIN)
  /\ (InBlock /\ timeout < 0 /\ bpc # "idle")
       ~> (InBlock /\ timeout < 0 /\ bpc = "idle" /\ (ret = 1 \/ ret < 0))

\* the driver waited out a transient status and then found the end of a
\* source whose packets a processor had received
C7_Witness ==
  /\ InBlock /\ timeout < 0 /\ bpc = "idle"
  /\ Len(calls) = 2
  /\ sleeps = 1
  /\ ret = 1
  /\ nulled # {}

\* C8: with timeout 0 the driver makes one process_packet call and does not
\* sleep when that call finds end-of-stream or reads a packet.
C8_ZeroTimeoutOneCall ==
  (InBlock /\ timeout = 0 /\ calls # << >>
   /\ calls[1].rd \in { AVERROR_EOF, 0 })
  => /\ Len(calls) = 1
     /\ sleeps = 0
     /\ bpc = "idle"

\* with timeout 0 a packet was read and handed to a processor
C8_Witness ==
  /\ InBlock /\ timeout = 0 /\ bpc = "idle"
  /\ calls = << [rd |-> 0, ret |-> 0] >>
  /\ received # {}

\* C9: is_buffer_ready() is true iff every processor that exists reports
\* all its buffers ready; empty slots do not count, so it is true when no
\* processor exists.
C9_IsBufferReady ==
  /\ IsBufferReadyFrom(0)
       <=> \A i \in Src :
             processors[i].present
               => \A k \in DOMAIN processors[i].sinks :
                    SinkReady(processors[i].sinks[k])
  /\ op[1] = "is_buffer_ready" => ready = IsBufferReadyFrom(0)
  /\ Present = {} => IsBufferReadyFrom(0)

\* is_buffer_ready() answered false: of two processors one was ready and
\* the other was not
C9_Witness ==
  /\ op[1] = "is_buffer_ready"
  /\ ready = FALSE
  /\ Cardinality(Present) = 2
  /\ \E i \in Present : /\ processors[i].sinks # NoSinks
                        /\ ProcIsBufferReady(processors[i])

\* C10: pop_chunks() returns one element per entry of the output index, the
\* j-th being what popping the buffer of the j-th entry gives; before any
\* successful process_packet every element is the "nothing" marker.
C10_PopChunks ==
  [][ op'[1] = "pop_chunks"
      => /\ Len(popped') = Len(stream_indices)
         /\ \A j \in 1 .. Len(stream_indices) :
              LET src == stream_indices[j][1]
                  key == stream_indices[j][2]
              IN /\ popped'[j] = ProcPopChunk(processors[src], key)
                 /\ processors'[src].sinks[key] =
                      ProcAfterPop(processors[src], key).sinks[key]
         /\ ~pp_success => \A j \in 1 .. Len(popped') : popped'[j] = NoChunk
    ]_vars

\* two output streams were popped: the first had nothing, the second a chunk
C10_Witness ==
  /\ op[1] = "pop_chunks"
  /\ Len(popped) = 2
  /\ popped[1] = NoChunk
  /\ popped[2] # NoChunk

\* the buffers that hold frames of a chunk that is not complete
PartialSinks ==
  { << i, k >> \in Src \X (0 .. MaxKey) :
      /\ processors[i].present
      /\ k \in DOMAIN processors[i].sinks
      /\ processors[i].sinks[k].frames # << >>
      /\ Len(processors[i].sinks[k].frames)
           < processors[i].sinks[k].frames_per_chunk }

\* C11: when process_packet found end-of-stream and its drain pass failed
\* nowhere, every buffer that holds frames of an incomplete chunk is ready
\* and is_buffer_ready() holds of every processor.
C11_DrainMakesReady ==
  (IsProcessPacket(op) /\ rd = AVERROR_EOF /\ ret = 1)
  => /\ \A x \in PartialSinks : SinkReady(processors[x[1]].sinks[x[2]])
     /\ \A i \in Present : ProcIsBufferReady(processors[i])
     /\ IsBufferReadyFrom(0)

\* end-of-stream was found with two processors, one of them holding a
\* partial chunk
C11_Witness ==
  /\ op[1] = "process_packet"
  /\ rd = AVERROR_EOF
  /\ ret = 1
  /\ Cardinality(Present) = 2
  /\ PartialSinks # {}

\* the timestamps of the frames the output buffers hold
BufferedPts ==
  UNION { UNION { { processors[i].sinks[k].frames[n] :
                      n \in 1 .. Len(processors[i].sinks[k].frames) } :
                  k \in DOMAIN processors[i].sinks } :
          i \in Present }

\* the timestamps of the frames the last pop_chunks() returned
PoppedPts ==
  UNION { { popped[j][n] : n \in 1 .. Len(popped[j]) } :
          j \in 1 .. Len(popped) }

\* C12: once seek(t) succeeded, no output buffer holds and no pop_chunks()
\* returns a frame with a timestamp before t.
C12_MonotonicResume ==
  seek_ts >= 0 => \A pts \in BufferedPts \cup PoppedPts : pts >= seek_ts

\* C13: seek(t) with t < 0 raises, seeks nothing in the container, flushes
\* no processor and leaves output index, processors and buffers as they were.
C13_NegativeSeekRejected ==
  [][ (op'[1] = "seek" /\ op'[2] < 0)
      => /\ err' = "timestamp must be non-negative."
         /\ flushed' = << >>
         /\ UNCHANGED << stream_indices, processors, discard, pos, seekVars >>
    ]_vars

\* a negative seek was rejected while a buffer held a frame and a decoder
\* held one back
C13_Witness ==
  /\ op = << "seek", -1 >>
  /\ err = "timestamp must be non-negative."
  /\ BufferedPts # {}
  /\ \E i \in Present : processors[i].pending # << >>

\* the errors of a hardware-acceleration request that is turned down
CapabilityErrors ==
  { "torchaudio is not compiled with CUDA support.",
    "Only CUDA is supported for hardware acceleration." }

OutOfRangeErrors ==
  { "Source stream index out of range", "Output stream index out of range" }

ValidationErrors ==
  CapabilityErrors \cup { "Stream is not of the media type",
                          "Failed to detect the source stream format." }

\* the media kind an add call asks for
AddKind(o) == IF o[1] = "add_audio_stream" THEN "audio" ELSE "video"

\* C15: an add call on a stream of another media kind (a stream that is
\* neither audio nor video included) or of undetected format is rejected,
\* and an add call rejected by validation, a turned-down
\* hardware-acceleration request included, creates no processor, appends
\* nothing to the output index and changes no discard flag.
C15_RejectedAddNoChange ==
  [][ op'[1] \in { "add_audio_stream", "add_video_stream" }
      => /\ (/\ op'[2] \in Src
             /\ \/ codec_type(op'[2]) # AddKind(op')
                \/ format(op'[2]) = -1)
            => err' \in ValidationErrors
         /\ err' \in ValidationErrors => UNCHANGED cfgVars
    ]_vars

\* add_audio_stream was rejected on the subtitle stream, which stays
\* discarded and without processor, while another stream is configured
C15_Witness ==
  /\ op = << "add_audio_stream", 2, "default" >>
  /\ err = "Stream is not of the media type"
  /\ discard[2] = "all"
  /\ ~processors[2].present
  /\ stream_indices # << >>

\* the last call was an add that succeeded
AddSucceeded(o, e) ==
  o[1] \in { "add_audio_stream", "add_video_stream" } /\ e = "none"

\* C16: the first add that succeeds on a source index s, none of the output
\* streams referring to s, finds the slot of s absent and leaves in it a new
\* processor that holds the one key it issued; removing the only output
\* stream that refers to s leaves the slot absent and the key out of the
\* output index.
C16_ProcessorLifecycle ==
  [][ /\ (AddSucceeded(op', err') /\ ~StillUsed(stream_indices, op'[2]))
         => /\ ~processors[op'[2]].present
            /\ processors'[op'[2]].present
            /\ processors'[op'[2]].current_key = 1
            /\ DOMAIN processors'[op'[2]].sinks = { 0 }
            /\ processors'[op'[2]].pending = << >>
            /\ stream_indices' = Append(stream_indices, << op'[2], 0 >>)
      /\ (/\ op'[1] = "remove_stream"
          /\ op'[2] \in 0 .. (Len(stream_indices) - 1))
         => LET s == stream_indices[op'[2] + 1][1]
            IN ~StillUsed(stream_indices', s)
                 => /\ processors[s].present
                    /\ processors'[s] = NoProcessor
    ]_vars

\* C17: the pairs of the output index are pairwise distinct and each names
\* a key the processor at its source index holds, so get_out_stream_info(j)
\* answers for every valid j and pop_chunks() gives one element per pair.
C17_OutputIndexResolves ==
  /\ \A a, b \in 1 .. Len(stream_indices) :
       a # b => stream_indices[a] # stream_indices[b]
  /\ \A j \in 1 .. Len(stream_indices) :
       /\ stream_indices[j][1] \in Src
       /\ processors[stream_indices[j][1]].present
       /\ stream_indices[j][2] \in DOMAIN processors[stream_indices[j][1]].sinks
  /\ (op[1] = "get_out_stream_info" /\ op[2] \in 0 .. (Len(stream_indices) - 1))
       => /\ err = "none"
          /\ info.source_index = stream_indices[op[2] + 1][1]
          /\ info.key = stream_indices[op[2] + 1][2]
  /\ op[1] = "pop_chunks"
       => err = "none" /\ Len(popped) = Len(stream_indices)

\* get_out_stream_info(1) answered for the second of two output streams of
\* one source, left after the removal of the one between them
C17_Witness ==
  /\ op = << "get_out_stream_info", 1 >>
  /\ err = "none"
  /\ stream_indices = << << 0, 0 >>, << 0, 2 >> >>
  /\ info.key = 2

\* the number of flush() calls the last operation made on processor i
FlushCount(i) == Cardinality({ n \in 1 .. Len(flushed) : flushed[n] = i })

\* the output definitions of a processor: its keys and their chunking
Definitions(p) ==
  [k \in DOMAIN p.sinks |->
     << p.sinks[k].frames_per_chunk, p.sinks[k].num_chunks >>]

\* C18: seek(t) with t >= 0 flushes every processor exactly once and no
\* empty slot when the container seek succeeds, and flushes nothing when it
\* fails; either way the processors that exist, their output definitions
\* and the output index are as before.
C18_SeekFlushesOnce ==
  [][ (op'[1] = "seek" /\ op'[2] >= 0)
      => /\ err' \in { "none", "Failed to seek." }
         /\ err' = "none"
              => /\ \A i \in Src :
                      FlushCount(i)' = IF processors[i].present THEN 1 ELSE 0
                 /\ \A i \in Present : processors'[i] = ProcFlush(processors[i])
         /\ err' = "Failed to seek."
              => /\ flushed' = << >>
                 /\ processors' = processors
         /\ Present' = Present
         /\ \A i \in Present :
              Definitions(processors'[i]) = Definitions(processors[i])
         /\ UNCHANGED << stream_indices, discard >>
    ]_vars

\* a seek to a later timestamp succeeded with two processors, each flushed
\* once, in slot order
C18_Witness ==
  /\ op[1] = "seek"
  /\ err = "none"
  /\ flushed = << 0, 1 >>
  /\ seek_ts > 0

\* the processors that answered the last operation with a negative result
Failed == { i \in DOMAIN presults : presults[i] < 0 }

\* C19: the drain pass hands the null packet to every processor, also after
\* one of them failed, and reports the result of the failing processor of
\* the highest source index; process_packet returns that, or 1 when none
\* failed.
C19_DrainReportsLastFailure ==
  (IsProcessPacket(op) /\ rd = AVERROR_EOF)
  => /\ nulled = Present
     /\ DOMAIN presults = Present
     /\ \A i \in Failed :
          (\A j \in Failed : j <= i) => ret = presults[i]
     /\ Failed = {} => ret = 1

\* of two processors both failed the drain, with different statuses, and
\* the status of the second was returned
C19_Witness ==
  /\ op[1] = "process_packet"
  /\ rd = AVERROR_EOF
  /\ nulled = { 0, 1 }
  /\ presults[0] = AVERROR_ENOMEM
  /\ presults[1] = AVERROR_INVALIDDATA
  /\ ret = AVERROR_INVALIDDATA

\* every read of the current process_packet_block call was transient
AllTransient == \A j \in 1 .. Len(calls) : calls[j].rd = AVERROR_EAGAIN

\* C20: with timeout >= 0 the driver calls process_packet before it looks
\* at the deadline, sleeps once, for backoff or longer, between two
\* calls, goes on only while the deadline has not passed, and returns; on a
\* source that was transient throughout it returns the transient status,
\* with the deadline passed.
C20_TimeoutTerminates ==
  /\ [](InBlock /\ timeout >= 0
        => /\ bpc = "idle" => Len(calls) >= 1
           /\ sleeps = IF bpc = "call" THEN Len(calls) ELSE Len(calls) - 1
           /\ bpc = "sleep"
                => /\ calls[Len(calls)].ret = AVERROR_EAGAIN
                   /\ ~DeadLinePassed(left)
           /\ (bpc = "idle" /\ AllTransient)
                => /\ ret = AVERROR_EAGAIN
                   /\ DeadLinePassed(left))
  /\ [][ (InBlock /\ timeout >= 0 /\ bpc = "sleep" /\ bpc' = "call")
         => /\ sleeps' = sleeps + 1
            /\ left' <= Elapse(left, backoff)
            /\ calls' = calls ]_vars
  /\ (InBlock /\ timeout >= 0 /\ bpc # "idle") ~> (InBlock /\ bpc = "idle")

\* the driver gave up after three transient reads and two sleeps
C20_Witness ==
  /\ InBlock /\ timeout > 0 /\ bpc = "idle"
  /\ Len(calls) = 3
  /\ AllTransient
  /\ sleeps = 2
  /\ ret = AVERROR_EAGAIN

\* the calls that add an output stream
IsAdd(o) == o[1] \in { "add_audio_stream", "add_video_stream" }

\* C21: the decoder of a processor is the decoder argument of the add call
\* that created it and stays so while the processor exists; an add call on
\* a source index whose processor exists keeps that processor, is not
\* turned down for its decoder argument, and does the same whatever its
\* decoder argument is.  (An add_video_stream whose hardware-acceleration
\* request is turned down never reaches the processor and is left aside.)
C21_DecoderFixedAtCreation ==
  [][ /\ \A i \in Src :
           (processors[i].present /\ processors'[i].present)
             => processors'[i].decoder = processors[i].decoder
      /\ \A i \in Src :
           (/\ IsAdd(op') /\ op'[2] = i
            /\ ~processors[i].present /\ processors'[i].present)
             => processors'[i].decoder = op'[3]
      /\ \A i \in Src :
           (/\ IsAdd(op') /\ op'[2] = i
            /\ processors[i].present
            /\ err' \notin CapabilityErrors)
             => /\ processors'[i].present
                /\ err' # "Unsupported decoder"
                /\ \E f \in Chunking, n \in NumChunks, g \in BOOLEAN :
                     \A d \in DecoderArgs :
                       AddStream(i, AddKind(op'), f, n, d, g)
    ]_vars

\* a second output stream was added to a processor made with decoder "alt"
\* by a call that named a decoder the decode layer does not know
C21_Witness ==
  \E i \in Src :
    /\ IsAdd(op) /\ op[2] = i /\ op[3] = "unknown"
    /\ err = "none"
    /\ processors[i].present
    /\ processors[i].decoder = "alt"
    /\ Cardinality(DOMAIN processors[i].sinks) = 2

\* the streams of the container that are audio or video
AudioVideo == { i \in Src : codec_type(i) \in { "audio", "video" } }

\* C22: after open a discard flag changes, if at all, from "all" to
\* "default"; a stream that is neither audio nor video stays flagged "all";
\* remove_stream changes no flag, so that the source stream of the removed
\* output stream is not discarded and, its processor gone, the read still
\* delivers its packets; and process_packet drops a packet whose stream has
\* no processor: it returns 0, no processor gets the packet, and the
\* configuration stays as it is.
C22_DiscardNeverRestored ==
  [][ /\ \A i \in Src :
           discard'[i] # discard[i]
             => discard[i] = "all" /\ discard'[i] = "default"
      /\ \A i \in Src \ AudioVideo :
           discard[i] = "all" /\ discard'[i] = "all"
      /\ (op'[1] = "remove_stream" /\ err' = "none")
           => LET s == stream_indices[op'[2] + 1][1]
              IN /\ discard' = discard
                 /\ discard'[s] = "default"
                 /\ (~processors'[s].present /\ pos' < SrcLen)
                      => << 0, [stream_index |-> s, pts |-> pos'] >>
                           \in ReadOutcomes'
      /\ (/\ op'[1] = "process_packet" /\ rd' = 0
          /\ ~processors[pkt'.stream_index].present)
           => /\ ret' = 0
              /\ err' = "none"
              /\ received' = {}
              /\ UNCHANGED cfgVars
    ]_vars

\* the only output stream was removed before the source ended: no processor
\* is left, and the read may deliver a packet of either of the audio and
\* video streams that can be configured, the one just removed among them
C22_Witness ==
  /\ op = << "remove_stream", 0 >> /\ err = "none"
  /\ stream_indices = << >>
  /\ Present = {}
  /\ pos < SrcLen
  /\ \A s \in { i \in AudioVideo : format(i) # -1 } :
       << 0, [stream_index |-> s, pts |-> pos] >> \in ReadOutcomes

=============================================================================
